---------------------------- MODULE Spec2Model ----------------------------
(***************************************************************************)
(* A model of the in-memory file system of src/3/userfs.c: the file list,  *)
(* the block chains, the descriptor table and the public operations        *)
(* ufs_open / ufs_write / ufs_read / ufs_close / ufs_delete / ufs_resize / *)
(* ufs_destroy, built with NEED_OPEN_FLAGS and NEED_RESIZE enabled.        *)
(*                                                                         *)
(* The C heap is modelled explicitly.  Blocks and files live in pools of   *)
(* identifiers (addresses); malloc hands out a free identifier or fails,   *)
(* free returns it.  A freed block keeps its bytes (stale memory) and may  *)
(* be handed out again, so a dangling pointer reads stale data or aliases  *)
(* a new allocation.  An access to freed memory or past the end of a       *)
(* block buffer is undefined behaviour: the model lets the process either  *)
(* crash (fault) or carry on with what the memory holds.                   *)
(*                                                                         *)
(* Every C function is an operator from a program state (a record of the   *)
(* globals and the heap) to a program state and a return value; an action  *)
(* applies one public function and commits its result.                     *)
(***************************************************************************)
EXTENDS Integers, Sequences, FiniteSets, TLC

(***************************************************************************)
(* Sizes.  The source has BLOCK_SIZE = 512, MAX_FILE_SIZE = 100 MiB        *)
(* (204800 blocks) and a descriptor table that starts at 16 slots; the     *)
(* model keeps the code and scales the numbers so that block boundaries,   *)
(* the size limit and the table growth are all reached.                    *)
(***************************************************************************)
\* userfs.c:8, scaled: bytes per block.
BLOCK_SIZE == 2
\* userfs.c:9 is 1024 * 1024 * 100 = 204800 * BLOCK_SIZE; scaled block count.
MaxFileBlocks == 2
\* userfs.c:161, scaled: the capacity of the first descriptor table.
InitialCapacity == 1
\* The heap: addresses available for struct block, for struct file, and the
\* largest descriptor table realloc can deliver.
HeapBlocks == 3
HeapFiles == 2
MaxCapacity == 2
\* Longest buffer handed to ufs_write, largest capacity handed to ufs_read.
MaxWriteLen == 3
MaxReadLen == 4
\* An out-of-bounds read that is not a crash may leave a cursor anywhere; the
\* model follows it only up to this offset.
OffsetCap == 6
\* The number of calls a client makes.
MaxSteps == 5

MAX_FILE_SIZE == MaxFileBlocks * BLOCK_SIZE

NULL == 0
BlockIds == 1..HeapBlocks
FileIds == 1..HeapFiles
Bytes == {0, 1}
Names == {"a", "b"}

\* enum ufs_error_code of userfs.h, as used by userfs.c.
UFS_ERR_NO_ERR == "UFS_ERR_NO_ERR"
UFS_ERR_NO_FILE == "UFS_ERR_NO_FILE"
UFS_ERR_NO_MEM == "UFS_ERR_NO_MEM"
UFS_ERR_NO_PERMISSION == "UFS_ERR_NO_PERMISSION"

\* enum open_flags of userfs.h, a flag word being the set of its bits.
UFS_CREATE == "UFS_CREATE"
UFS_READ_ONLY == "UFS_READ_ONLY"
UFS_WRITE_ONLY == "UFS_WRITE_ONLY"
UFS_READ_WRITE == "UFS_READ_WRITE"

VARIABLES
    ufs_error_code,            \* static enum ufs_error_code ufs_error_code
    files,                     \* heap: FileIds -> struct file
    blocks,                    \* heap: BlockIds -> struct block
    falloc,                    \* addresses of struct file currently malloc'ed
    balloc,                    \* addresses of struct block currently malloc'ed
    file_list,                 \* static struct file *file_list, head first
    file_descriptors,          \* static struct filedesc **file_descriptors
    file_descriptor_count,     \* static int file_descriptor_count
    file_descriptor_capacity,  \* static int file_descriptor_capacity
    fault,                     \* the process died of undefined behaviour
    last,                      \* the last call and what it returned
    steps                      \* the number of calls made so far

vars == <<ufs_error_code, files, blocks, falloc, balloc, file_list,
          file_descriptors, file_descriptor_count, file_descriptor_capacity,
          fault, last, steps>>

Min(a, b) == IF a < b THEN a ELSE b
Max(a, b) == IF a > b THEN a ELSE b
MinOf(S) == CHOOSE x \in S : \A y \in S : x <= y

\* struct block after create_block: zeroed memory, nothing occupied, no next.
\* (block->prev is written by the code and never read; it is not modelled.)
ZeroMemory == [i \in 1..BLOCK_SIZE |-> 0]
NewBlock == [memory |-> ZeroMemory, occupied |-> 0, next |-> NULL]

\* struct file after create_file (file->next / file->prev are the positions
\* in the sequence file_list).
NewFile(name) ==
    [block_list |-> NULL, last_block |-> NULL, refs |-> 0, name |-> name,
     size |-> 0]
NoFile == NewFile("")

\* An empty slot of file_descriptors (a NULL pointer), and struct filedesc.
NoDesc == [file |-> NULL, block |-> NULL, pos |-> 0, offset |-> 0, flags |-> {}]

\* The program state the C functions work on.  ub records that the call
\* touched freed memory or ran outside a buffer, hang that it entered a loop
\* it cannot leave; oracle is what the next malloc calls of struct block will
\* answer (an address each, then failure), misfit records an answer malloc
\* cannot give, starved that a malloc failed while memory was left, garbage
\* is the byte found outside a buffer.
State ==
    [err |-> ufs_error_code, files |-> files, blocks |-> blocks,
     falloc |-> falloc, balloc |-> balloc, file_list |-> file_list,
     fds |-> file_descriptors, count |-> file_descriptor_count,
     cap |-> file_descriptor_capacity, ub |-> FALSE, hang |-> FALSE,
     oracle |-> <<>>, misfit |-> FALSE, starved |-> FALSE, garbage |-> 0]


(***************************************************************************)
(* The heap.                                                               *)
(***************************************************************************)
\* The descriptors in use: the non-NULL slots of file_descriptors.
OpenDescs(s) == {s.fds[i] : i \in {j \in 1..Len(s.fds) : s.fds[j] # NoDesc}}

\* The files the program still holds a pointer to: through file_list or
\* through a descriptor.
LiveFiles(s) ==
    {s.file_list[i] : i \in 1..Len(s.file_list)}
        \cup {d.file : d \in OpenDescs(s)}

RECURSIVE NextClosure(_, _)
NextClosure(s, S) ==
    LET T == S \cup ({s.blocks[b].next : b \in S} \ {NULL})
    IN  IF T = S THEN S ELSE NextClosure(s, T)

\* The blocks the program can still reach through some pointer it holds.
ReachableBlocks(s) ==
    NextClosure(s,
        ({d.block : d \in OpenDescs(s)}
            \cup {s.files[f].block_list : f \in LiveFiles(s)}
            \cup {s.files[f].last_block : f \in LiveFiles(s)}) \ {NULL})

\* malloc may return any free address.  Free addresses that no pointer of the
\* program refers to are interchangeable, so one of them stands for all; a
\* free address that a dangling pointer still refers to is a case of its own.
Admissible(s, b) ==
    /\ b \in BlockIds \ s.balloc
    /\ \/ b \in ReachableBlocks(s)
       \/ b = MinOf((BlockIds \ s.balloc) \ ReachableBlocks(s))

\* Memory nothing points to can never be read again: it is kept in one
\* canonical form (it stays allocated if it was: a leak).
Normalize(s) ==
    LET reach == ReachableBlocks(s)
        live == LiveFiles(s)
    IN  [s EXCEPT
            !.blocks = [b \in BlockIds |->
                            IF b \in reach THEN s.blocks[b] ELSE NewBlock],
            !.files = [f \in FileIds |->
                            IF f \in live THEN s.files[f] ELSE NoFile]]

\* A dereference of block pointer b: undefined if the block was freed.
Touch(s, b) == IF b \in s.balloc THEN s ELSE [s EXCEPT !.ub = TRUE]

\* free(block->memory); free(block): a second free is undefined.
free_block(s, b) ==
    IF b \in s.balloc THEN [s EXCEPT !.balloc = @ \ {b}]
    ELSE [s EXCEPT !.ub = TRUE]

\* The loop that frees a whole chain (ufs_close, ufs_delete, ufs_destroy)
\* and the tail of one (ufs_resize).  A chain longer than the heap is a
\* cycle, which the loop never leaves.
RECURSIVE free_chain_from(_, _, _)
free_chain_from(s, block, fuel) ==
    IF block = NULL THEN s
    ELSE IF fuel = 0 THEN [s EXCEPT !.hang = TRUE]
    ELSE LET next == s.blocks[block].next
         IN  free_chain_from(free_block(Touch(s, block), block), next, fuel - 1)

free_chain(s, block) == free_chain_from(s, block, HeapBlocks + 1)

\* free(file->name); free(file).
free_file(s, f) == [s EXCEPT !.falloc = @ \ {f}]

(***************************************************************************)
(* The static helpers of userfs.c.                                         *)
(***************************************************************************)
RECURSIVE find_in_list(_, _, _)
find_in_list(s, filename, i) ==
    IF i > Len(s.file_list) THEN NULL
    ELSE IF s.files[s.file_list[i]].name = filename THEN s.file_list[i]
    ELSE find_in_list(s, filename, i + 1)

\* A lookup that takes the first registered file whatever its name.
find_file_first(s, filename) ==
    IF s.file_list = <<>> THEN NULL ELSE Head(s.file_list)

find_file(s, filename) == find_in_list(s, filename, 1)

\* malloc of the struct and strdup of the name succeed together (ok) or the
\* function fails with the same effect whichever of the two failed.
create_file(s, filename, ok) ==
    IF ~ok \/ FileIds \ s.falloc = {}
    THEN [s |-> [s EXCEPT !.err = UFS_ERR_NO_MEM], file |-> NULL]
    ELSE LET f == MinOf(FileIds \ s.falloc)
         IN  [s |-> [s EXCEPT !.falloc = @ \cup {f},
                              !.files[f] = NewFile(filename),
                              !.file_list = <<f>> \o @],
              file |-> f]

\* malloc of the struct and of its memory: the next answer of the oracle.
create_block(s) ==
    IF s.oracle = <<>>
    THEN [s |-> [s EXCEPT !.err = UFS_ERR_NO_MEM,
                          !.starved = @ \/ BlockIds \ s.balloc # {}],
          block |-> NULL]
    ELSE LET b == Head(s.oracle)
         IN  [s |-> [s EXCEPT !.balloc = @ \cup {b},
                              !.blocks[b] = NewBlock,
                              !.oracle = Tail(@),
                              !.misfit = @ \/ ~Admissible(s, b)],
              block |-> b]

\* A table scan that takes the last empty slot instead of the first.
FirstFreeSlot_last(fds) ==
    LET free == {i \in 1..Len(fds) : fds[i] = NoDesc}
    IN  IF free = {} THEN -1 ELSE (CHOOSE x \in free : \A y \in free : x >= y) - 1

\* The for loop of lines 177-187: the first slot that holds NULL.
FirstFreeSlot(fds) ==
    LET free == {i \in 1..Len(fds) : fds[i] = NoDesc}
    IN  IF free = {} THEN -1 ELSE MinOf(free) - 1

\* A registration that does not count the slot it fills.
add_descriptor_uncounted(s, fd, tableOk) ==
    LET new_capacity == IF s.cap = 0 THEN InitialCapacity ELSE s.cap * 2
        grow == s.count = s.cap
        s1 == IF grow
              THEN [s EXCEPT !.fds = @ \o [i \in 1..(new_capacity - s.cap) |-> NoDesc],
                             !.cap = new_capacity]
              ELSE s
        fd_id == FirstFreeSlot(s1.fds)
    IN  IF grow /\ (~tableOk \/ new_capacity > MaxCapacity)
        THEN [s |-> [s EXCEPT !.err = UFS_ERR_NO_MEM], ret |-> -1]
        ELSE IF fd_id = -1
        THEN [s |-> [s1 EXCEPT !.err = UFS_ERR_NO_MEM], ret |-> -1]
        ELSE [s |-> [s1 EXCEPT !.fds[fd_id + 1] = fd], ret |-> fd_id]

add_descriptor(s, fd, tableOk) ==
    LET new_capacity == IF s.cap = 0 THEN InitialCapacity ELSE s.cap * 2
        grow == s.count = s.cap
        s1 == IF grow
              THEN [s EXCEPT !.fds = @ \o [i \in 1..(new_capacity - s.cap) |-> NoDesc],
                             !.cap = new_capacity]
              ELSE s
        fd_id == FirstFreeSlot(s1.fds)
    IN  IF grow /\ (~tableOk \/ new_capacity > MaxCapacity)
        THEN [s |-> [s EXCEPT !.err = UFS_ERR_NO_MEM], ret |-> -1]
        ELSE IF fd_id = -1
        THEN [s |-> [s1 EXCEPT !.err = UFS_ERR_NO_MEM], ret |-> -1]
        ELSE [s |-> [s1 EXCEPT !.fds[fd_id + 1] = fd, !.count = @ + 1],
              ret |-> fd_id]

ValidFd(s, fd) == fd >= 0 /\ fd < s.cap /\ s.fds[fd + 1] # NoDesc

\* A lookup that reports no error for a bad handle.
get_descriptor_silent(s, fd) ==
    IF ~ValidFd(s, fd)
    THEN [s |-> s, desc |-> NoDesc]
    ELSE [s |-> s, desc |-> s.fds[fd + 1]]

\* ufs_errno: returns the error code and assigns nothing.
ufs_errno(s) == s.err

get_descriptor(s, fd) ==
    IF ~ValidFd(s, fd)
    THEN [s |-> [s EXCEPT !.err = UFS_ERR_NO_FILE], desc |-> NoDesc]
    ELSE [s |-> s, desc |-> s.fds[fd + 1]]

\* Taking a file out of file_list through its prev / next pointers.
unlink_file(s, f) ==
    [s EXCEPT !.file_list = SelectSeq(@, LAMBDA x : x # f)]

(***************************************************************************)
(* ufs_open                                                                *)
(***************************************************************************)
\* The rollback both failure paths of ufs_open share: the file is unlinked
\* and freed when nothing has it open.  Its blocks are not freed.
open_rollback(s, file) ==
    IF s.files[file].refs = 0
    THEN free_file(unlink_file(s, file), file)
    ELSE s

\* Lines 245-248: fd->flags = flags, with UFS_READ_WRITE added when no access
\* bit is given.  The UFS_CREATE bit stays in fd->flags, where nothing reads
\* it: the model keeps the access bits.
AccessModes == {UFS_READ_ONLY, UFS_WRITE_ONLY, UFS_READ_WRITE}
AccessBits(flags) ==
    IF flags \cap AccessModes = {} THEN {UFS_READ_WRITE}
    ELSE flags \cap AccessModes

ufs_open(s0, filename, flags, fileOk, fdOk, tableOk) ==
    LET s == [s0 EXCEPT !.err = UFS_ERR_NO_ERR]
        found == find_file(s, filename)
        made == IF found = NULL /\ UFS_CREATE \in flags
                THEN create_file(s, filename, fileOk)
                ELSE [s |-> s, file |-> found]
        file == made.file
        s1 == made.s
        fd == [file |-> file, block |-> s1.files[file].block_list, pos |-> 0,
               offset |-> 0,
               flags |-> AccessBits(flags)]
        s2 == [s1 EXCEPT !.files[file].refs = @ + 1]
        added == add_descriptor(s2, fd, tableOk)
        s3 == [added.s EXCEPT !.files[file].refs = @ - 1]
    IN  IF found = NULL /\ UFS_CREATE \notin flags
        THEN [s |-> [s EXCEPT !.err = UFS_ERR_NO_FILE], ret |-> -1]
        ELSE IF file = NULL THEN [s |-> s1, ret |-> -1]
        ELSE IF ~fdOk
        THEN [s |-> open_rollback([s1 EXCEPT !.err = UFS_ERR_NO_MEM], file),
              ret |-> -1]
        ELSE IF added.ret = -1
        THEN [s |-> open_rollback(s3, file), ret |-> -1]
        ELSE [s |-> added.s, ret |-> added.ret]


(***************************************************************************)
(* ufs_write                                                               *)
(***************************************************************************)
\* A copy that stores the chunk back to front.
CopyIn_reversed(memory, pos, buf, from, n) ==
    [i \in 1..BLOCK_SIZE |->
        IF i > pos /\ i <= pos + n THEN buf[from + n + 1 - (i - pos)] ELSE memory[i]]

\* memcpy(block->memory + pos, buf + from, n).
CopyIn(memory, pos, buf, from, n) ==
    [i \in 1..BLOCK_SIZE |->
        IF i > pos /\ i <= pos + n THEN buf[from + (i - pos)] ELSE memory[i]]

\* Lines 297-331: the cursor has no block or stands at the end of one; it
\* moves to the next block or appends a new one.  ok = FALSE: create_block
\* failed.
write_advance(s, i) ==
    LET d == s.fds[i]
        f == d.file
        made == create_block(IF d.block = NULL THEN s ELSE Touch(s, d.block))
        nb == made.block
    IN  IF s.files[f].block_list = NULL
        THEN LET m == create_block(s)
             IN  IF m.block = NULL THEN [s |-> m.s, ok |-> FALSE]
                 ELSE [s |-> [m.s EXCEPT !.files[f].block_list = m.block,
                                         !.files[f].last_block = m.block,
                                         !.fds[i].block = m.block,
                                         !.fds[i].pos = 0],
                       ok |-> TRUE]
        ELSE IF d.block = NULL \/ s.blocks[d.block].next = NULL
        THEN IF nb = NULL THEN [s |-> made.s, ok |-> FALSE]
             ELSE LET prev == IF d.block # NULL THEN d.block
                              ELSE s.files[f].last_block
                  IN  [s |-> [[made.s EXCEPT !.ub = @ \/ prev \notin s.balloc]
                                EXCEPT
                                  !.blocks[prev].next = nb,
                                  !.files[f].last_block = nb,
                                  !.fds[i].block = nb,
                                  !.fds[i].pos = 0],
                       ok |-> TRUE]
        ELSE [s |-> [Touch(s, d.block) EXCEPT
                        !.fds[i].block = s.blocks[d.block].next,
                        !.fds[i].pos = 0],
              ok |-> TRUE]

\* Lines 333-344: copy what fits into the current block.
write_copy(s, i, buf, bytes_written) ==
    LET d == s.fds[i]
        b == d.block
        to_write == Min(BLOCK_SIZE - d.pos, Len(buf) - bytes_written)
        pos == d.pos + to_write
    IN  [s |-> [Touch(s, b) EXCEPT
                    !.blocks[b].memory =
                        CopyIn(@, d.pos, buf, bytes_written, to_write),
                    !.blocks[b].occupied = Max(@, pos),
                    !.fds[i].pos = pos,
                    !.fds[i].offset = @ + to_write],
         n |-> to_write]

\* The while loop of lines 296-345 and the size update after it.
RECURSIVE write_loop(_, _, _, _)
write_loop(s, i, buf, bytes_written) ==
    IF bytes_written >= Len(buf)
    THEN LET d == s.fds[i]
         IN  [s |-> IF d.offset > s.files[d.file].size
                    THEN [s EXCEPT !.files[d.file].size = d.offset]
                    ELSE s,
              ret |-> bytes_written]
    ELSE LET d == s.fds[i]
             adv == IF d.block = NULL \/ d.pos >= BLOCK_SIZE
                    THEN write_advance(s, i)
                    ELSE [s |-> s, ok |-> TRUE]
             cp == write_copy(adv.s, i, buf, bytes_written)
         IN  IF ~adv.ok
             THEN [s |-> adv.s,
                   ret |-> IF bytes_written > 0 THEN bytes_written ELSE -1]
             ELSE write_loop(cp.s, i, buf, bytes_written + cp.n)

\* A permission test that lets every descriptor write.
CanWrite_always(d) == TRUE

CanWrite(d) == d.flags \cap {UFS_WRITE_ONLY, UFS_READ_WRITE} # {}
CanRead(d) == d.flags \cap {UFS_READ_ONLY, UFS_READ_WRITE} # {}

\* ufs_write without the size check of lines 290-293.
ufs_write_unchecked(s0, fd, buf) ==
    LET s == [s0 EXCEPT !.err = UFS_ERR_NO_ERR]
        got == get_descriptor(s, fd)
    IN  IF got.desc = NoDesc THEN [s |-> got.s, ret |-> -1]
        ELSE IF ~CanWrite(got.desc)
        THEN [s |-> [s EXCEPT !.err = UFS_ERR_NO_PERMISSION], ret |-> -1]
        ELSE write_loop(s, fd + 1, buf, 0)

ufs_write(s0, fd, buf) ==
    LET s == [s0 EXCEPT !.err = UFS_ERR_NO_ERR]
        got == get_descriptor(s, fd)
    IN  IF got.desc = NoDesc THEN [s |-> got.s, ret |-> -1]
        ELSE IF ~CanWrite(got.desc)
        THEN [s |-> [s EXCEPT !.err = UFS_ERR_NO_PERMISSION], ret |-> -1]
        ELSE IF got.desc.offset + Len(buf) > MAX_FILE_SIZE
        THEN [s |-> [s EXCEPT !.err = UFS_ERR_NO_MEM], ret |-> -1]
        ELSE write_loop(s, fd + 1, buf, 0)

(***************************************************************************)
(* ufs_read                                                                *)
(***************************************************************************)
\* memcpy(buf, block->memory + pos, n): a byte past the end of the block's
\* buffer is whatever lies there.
CopyOut(s, memory, pos, n) ==
    [k \in 1..n |-> IF pos + k <= BLOCK_SIZE THEN memory[pos + k] ELSE s.garbage]

\* The while loop of lines 382-416.  fuel bounds the iterations that move to
\* a next block without reading: more of them than there are blocks is a walk
\* round a cycle of the chain, which never ends.
RECURSIVE read_loop(_, _, _, _, _)
read_loop(s, i, size, out, fuel) ==
    LET d == s.fds[i]
        b == d.block
        blk == s.blocks[b]
        s1 == Touch(s, b)
        avail == blk.occupied - d.pos
        \* size_t to_read = occupied - pos: a negative difference wraps to a
        \* number larger than any request.
        to_read == IF avail < 0 THEN size - Len(out)
                   ELSE Min(avail, size - Len(out))
        pos == d.pos + to_read
        s2 == [s1 EXCEPT !.fds[i].pos = pos,
                         !.fds[i].offset = @ + to_read,
                         !.ub = @ \/ pos > BLOCK_SIZE]
        out2 == out \o CopyOut(s, blk.memory, d.pos, to_read)
    IN  IF Len(out) >= size \/ b = NULL THEN [s |-> s, out |-> out]
        ELSE IF fuel = 0 THEN [s |-> [s EXCEPT !.hang = TRUE], out |-> out]
        ELSE IF avail = 0
        THEN IF blk.next = NULL THEN [s |-> s1, out |-> out]
             ELSE read_loop([s1 EXCEPT !.fds[i].block = blk.next,
                                       !.fds[i].pos = 0],
                            i, size, out, fuel - 1)
        ELSE IF pos >= blk.occupied
        THEN IF blk.next = NULL THEN [s |-> s2, out |-> out2]
             ELSE read_loop([s2 EXCEPT !.fds[i].block = blk.next,
                                       !.fds[i].pos = 0],
                            i, size, out2, HeapBlocks + 1)
        ELSE read_loop(s2, i, size, out2, HeapBlocks + 1)

ufs_read(s0, fd, size) ==
    LET s == [s0 EXCEPT !.err = UFS_ERR_NO_ERR]
        got == get_descriptor(s, fd)
        d == got.desc
        head == s.files[d.file].block_list
        s1 == IF d.block = NULL
              THEN [s EXCEPT !.fds[fd + 1].block = head,
                             !.fds[fd + 1].pos = 0,
                             !.fds[fd + 1].offset = 0]
              ELSE s
        r == read_loop(s1, fd + 1, size, <<>>, HeapBlocks + 1)
    IN  IF d = NoDesc THEN [s |-> got.s, ret |-> -1, out |-> <<>>]
        ELSE IF ~CanRead(d)
        THEN [s |-> [s EXCEPT !.err = UFS_ERR_NO_PERMISSION], ret |-> -1,
              out |-> <<>>]
        ELSE IF head = NULL THEN [s |-> s, ret |-> 0, out |-> <<>>]
        ELSE [s |-> r.s, ret |-> Len(r.out), out |-> r.out]


(***************************************************************************)
(* ufs_close, ufs_delete                                                   *)
(***************************************************************************)
is_file_in_list(s, file) ==
    \E i \in 1..Len(s.file_list) : s.file_list[i] = file

\* Lines 451-459 and 487-495: free the chain, the name and the file.
destroy_file(s, file) ==
    free_file(free_chain(s, s.files[file].block_list), file)

\* A close that leaves the reference count of the file as it was.
ufs_close_keeps_refs(s0, fd) ==
    LET s == [s0 EXCEPT !.err = UFS_ERR_NO_ERR]
    IN  IF ~ValidFd(s, fd)
        THEN [s |-> [s EXCEPT !.err = UFS_ERR_NO_FILE], ret |-> -1]
        ELSE [s |-> [s EXCEPT !.fds[fd + 1] = NoDesc, !.count = @ - 1],
              ret |-> 0]

ufs_close(s0, fd) ==
    LET s == [s0 EXCEPT !.err = UFS_ERR_NO_ERR]
        file == s.fds[fd + 1].file
        s1 == [s EXCEPT !.files[file].refs = @ - 1]
        s2 == IF s1.files[file].refs = 0 /\ ~is_file_in_list(s1, file)
              THEN destroy_file(s1, file)
              ELSE s1
    IN  IF ~ValidFd(s, fd)
        THEN [s |-> [s EXCEPT !.err = UFS_ERR_NO_FILE], ret |-> -1]
        ELSE [s |-> [s2 EXCEPT !.fds[fd + 1] = NoDesc, !.count = @ - 1],
              ret |-> 0]

ufs_delete(s0, filename) ==
    LET s == [s0 EXCEPT !.err = UFS_ERR_NO_ERR]
        file == find_file(s, filename)
        s1 == unlink_file(s, file)
    IN  IF file = NULL
        THEN [s |-> [s EXCEPT !.err = UFS_ERR_NO_FILE], ret |-> -1]
        ELSE [s |-> IF s1.files[file].refs = 0 THEN destroy_file(s1, file)
                    ELSE s1,
              ret |-> 0]

(***************************************************************************)
(* ufs_resize                                                              *)
(***************************************************************************)
\* A walk along a chain that subtracts occupied counts ends within this many
\* steps unless it runs round a cycle of empty blocks.
WalkFuel == (HeapBlocks + 1) * (MAX_FILE_SIZE + OffsetCap + 1)

\* The while loop of find_position, lines 517-527.
RECURSIVE find_position_walk(_, _, _, _)
find_position_walk(s, i, pos, fuel) ==
    LET d == s.fds[i]
        b == d.block
        occ == s.blocks[b].occupied
    IN  IF b = NULL THEN [s |-> s, found |-> FALSE]
        ELSE IF fuel = 0 THEN [s |-> [s EXCEPT !.hang = TRUE], found |-> TRUE]
        ELSE IF pos < occ
        THEN [s |-> [Touch(s, b) EXCEPT !.fds[i].pos = pos,
                                        !.fds[i].offset = pos],
              found |-> TRUE]
        ELSE find_position_walk(
                [Touch(s, b) EXCEPT !.fds[i].offset = @ + occ,
                                    !.fds[i].block = s.blocks[b].next],
                i, pos - occ, fuel - 1)

find_position(s, i, pos) ==
    LET file == s.fds[i].file
        head == s.files[file].block_list
        tail == s.files[file].last_block
        w == find_position_walk(
                [s EXCEPT !.fds[i].block = head, !.fds[i].pos = 0,
                          !.fds[i].offset = 0],
                i, pos, WalkFuel)
    IN  IF head = NULL
        THEN [s EXCEPT !.fds[i].block = NULL, !.fds[i].pos = 0,
                       !.fds[i].offset = 0]
        ELSE IF w.found \/ tail = NULL THEN w.s
        ELSE [Touch(w.s, tail) EXCEPT
                !.fds[i].block = tail,
                !.fds[i].pos = w.s.blocks[tail].occupied,
                !.fds[i].offset = w.s.files[file].size]

\* The while loop of lines 563-572: find the block that holds the new end.
RECURSIVE shrink_walk(_, _, _, _)
shrink_walk(s, block, remaining, fuel) ==
    IF block = NULL \/ remaining <= 0 THEN [s |-> s, block |-> block]
    ELSE IF fuel = 0 THEN [s |-> [s EXCEPT !.hang = TRUE], block |-> NULL]
    ELSE LET occ == s.blocks[block].occupied
             s1 == Touch(s, block)
         IN  IF remaining >= occ
             THEN shrink_walk(s1, s.blocks[block].next, remaining - occ,
                              fuel - 1)
             ELSE [s |-> [s1 EXCEPT !.blocks[block].occupied = remaining],
                   block |-> block]

\* Lines 574-585: cut the chain after block and free what follows.
truncate_after(s, file, block) ==
    IF block = NULL THEN s
    ELSE free_chain([Touch(s, block) EXCEPT !.blocks[block].next = NULL,
                                            !.files[file].last_block = block],
                    s.blocks[block].next)

\* Lines 587-592: the loop over the descriptor table, from slot i on.
RECURSIVE fix_descriptors(_, _, _, _)
fix_descriptors(s, file, new_size, i) ==
    IF i > s.cap THEN s
    ELSE IF s.fds[i] # NoDesc /\ s.fds[i].file = file
            /\ s.fds[i].offset > new_size
    THEN fix_descriptors(find_position(s, i, new_size), file, new_size, i + 1)
    ELSE fix_descriptors(s, file, new_size, i + 1)

resize_shrink(s, file, new_size) ==
    LET w == shrink_walk(s, s.files[file].block_list, new_size, WalkFuel)
    IN  fix_descriptors(truncate_after(w.s, file, w.block), file, new_size, 1)

\* memset(block->memory + from, 0, n).
ZeroFill(memory, from, n) ==
    [i \in 1..BLOCK_SIZE |-> IF i > from /\ i <= from + n THEN 0 ELSE memory[i]]

\* The while loop of lines 613-628: append zeroed blocks.
RECURSIVE grow_append(_, _, _, _)
grow_append(s, file, block, to_add) ==
    IF to_add <= 0 THEN [s |-> s, ok |-> TRUE]
    ELSE LET made == create_block(s)
             nb == made.block
             fill == Min(BLOCK_SIZE, to_add)
         IN  IF nb = NULL THEN [s |-> made.s, ok |-> FALSE]
             ELSE grow_append(
                    [[made.s EXCEPT !.ub = @ \/ block \notin s.balloc] EXCEPT
                        !.blocks[nb].memory = ZeroFill(@, 0, fill),
                        !.blocks[nb].occupied = fill,
                        !.blocks[block].next = nb,
                        !.files[file].last_block = nb],
                    file, nb, to_add - fill)

\* Lines 593-629.
resize_grow(s, file, new_size) ==
    LET to_add == new_size - s.files[file].size
        first == create_block(s)
        s1 == IF s.files[file].block_list = NULL
              THEN [first.s EXCEPT !.files[file].block_list = first.block,
                                   !.files[file].last_block = first.block]
              ELSE s
        block == s1.files[file].last_block
        occ == s1.blocks[block].occupied
        fill == Min(BLOCK_SIZE - occ, to_add)
        s2 == IF occ < BLOCK_SIZE
              THEN [Touch(s1, block) EXCEPT
                        !.blocks[block].memory = ZeroFill(@, occ, fill),
                        !.blocks[block].occupied = occ + fill]
              ELSE Touch(s1, block)
    IN  IF s.files[file].block_list = NULL /\ first.block = NULL
        THEN [s |-> first.s, ok |-> FALSE]
        ELSE grow_append(s2, file, block,
                         IF occ < BLOCK_SIZE THEN to_add - fill ELSE to_add)

ufs_resize(s0, fd, new_size) ==
    LET s == [s0 EXCEPT !.err = UFS_ERR_NO_ERR]
        got == get_descriptor(s, fd)
        file == got.desc.file
        current_size == s.files[file].size
        grown == resize_grow(s, file, new_size)
        s1 == IF new_size < current_size THEN resize_shrink(s, file, new_size)
              ELSE IF new_size > current_size THEN grown.s
              ELSE s
    IN  IF got.desc = NoDesc THEN [s |-> got.s, ret |-> -1]
        ELSE IF ~CanWrite(got.desc)
        THEN [s |-> [s EXCEPT !.err = UFS_ERR_NO_PERMISSION], ret |-> -1]
        ELSE IF new_size > MAX_FILE_SIZE
        THEN [s |-> [s EXCEPT !.err = UFS_ERR_NO_MEM], ret |-> -1]
        ELSE IF new_size > current_size /\ ~grown.ok
        THEN [s |-> grown.s, ret |-> -1]
        ELSE [s |-> [s1 EXCEPT !.files[file].size = new_size], ret |-> 0]

(***************************************************************************)
(* ufs_destroy                                                             *)
(***************************************************************************)
\* The loop of lines 641-656 over file_list, from position i on.
RECURSIVE destroy_files(_, _)
destroy_files(s, i) ==
    IF i > Len(s.file_list) THEN s
    ELSE destroy_files(destroy_file(s, s.file_list[i]), i + 1)

ufs_destroy(s) ==
    [destroy_files(s, 1) EXCEPT !.fds = <<>>, !.count = 0, !.cap = 0,
                                !.file_list = <<>>]


(***************************************************************************)
(* The calls a client can make, and what it can pass.                      *)
(***************************************************************************)
Handles == -1..MaxCapacity
\* The code never looks at the bytes it stores: one buffer of each length,
\* with a pattern that shows a shifted or reordered copy, stands for all.
Pattern == <<1, 0, 1, 1, 0, 1, 1, 0>>
Buffers == {SubSeq(Pattern, 1, n) : n \in 0..MaxWriteLen}
AllBuffers == UNION {[1..n -> Bytes] : n \in 0..MaxWriteLen}
ReadSizes == 0..MaxReadLen
NewSizes == 0..(MAX_FILE_SIZE + 1)

\* The inputs of a specification: the names and flags passed to ufs_open,
\* the buffers written, the capacities read, the sizes resized to, whether
\* allocations may fail while memory is left (oks), whether a call that ran
\* into undefined behaviour may return (survive), and the number of calls.
Inputs ==
    [names |-> {"a"}, flags |-> {{}, {UFS_CREATE}}, bufs |-> Buffers,
     reads |-> ReadSizes, sizes |-> NewSizes, oks |-> BOOLEAN,
     survive |-> TRUE, steps |-> MaxSteps]

\* What malloc may answer to the create_block calls of one operation: some
\* distinct free addresses, then failure.
RECURSIVE DistinctSeqs(_, _)
DistinctSeqs(S, n) ==
    IF n = 0 \/ S = {} THEN {<<>>}
    ELSE {<<>>} \cup UNION {{<<x>> \o q : q \in DistinctSeqs(S \ {x}, n - 1)} :
                            x \in S}

Oracles(s) ==
    {<<>>} \cup UNION {{<<x>> \o q :
                            q \in DistinctSeqs((BlockIds \ s.balloc) \ {x},
                                               HeapBlocks - 1)} :
                       x \in {b \in BlockIds : Admissible(s, b)}}

\* The program state a call starts from: the state the previous call left.
Entry(s) ==
    [s EXCEPT !.ub = FALSE, !.hang = FALSE, !.oracle = <<>>,
              !.misfit = FALSE, !.starved = FALSE, !.garbage = 0]

\* An outcome is possible when malloc gave only addresses it can give and the
\* call asked for every address the oracle held.
Fits(r) == ~r.s.misfit /\ r.s.oracle = <<>>

\* Every way each call can end from program state s.
OpenOutcomes(s, name, flags, oks) ==
    {ufs_open(Entry(s), name, flags, fileOk, fdOk, tableOk) :
        fileOk \in oks, fdOk \in oks, tableOk \in oks}

WriteOutcomes(s, fd, buf) ==
    {r \in {ufs_write([Entry(s) EXCEPT !.oracle = ids], fd, buf) :
                ids \in Oracles(s)} : Fits(r)}

ReadOutcomes(s, fd, size) ==
    {ufs_read([Entry(s) EXCEPT !.garbage = g], fd, size) : g \in Bytes}

ResizeOutcomes(s, fd, new_size) ==
    {r \in {ufs_resize([Entry(s) EXCEPT !.oracle = ids], fd, new_size) :
                ids \in Oracles(s)} : Fits(r)}

CloseOutcome(s, fd) == ufs_close(Entry(s), fd)
DeleteOutcome(s, name) == ufs_delete(Entry(s), name)
DestroyOutcome(s) == [s |-> ufs_destroy(Entry(s)), ret |-> 0]

\* The record of a call: which function, what it returned, and whether it
\* ran into undefined behaviour on the way.
Call(op) == [op |-> op, ret |-> 0, ub |-> FALSE]
NoCall == Call("none")

\* The state after a call that returned: the program state the function left
\* and the record of the call.  A call that ran into undefined behaviour
\* may instead have killed the process; a call that hangs never returns.
Commit(I, r, call) ==
    LET n == Normalize(r.s)
    IN  /\ ~fault
        /\ steps < I.steps
        /\ steps' = steps + 1
        /\ r.s.starved => FALSE \in I.oks
        /\ \/ /\ ~r.s.hang
              /\ r.s.ub => /\ I.survive
                           /\ \A d \in OpenDescs(n) : d.offset <= OffsetCap
              /\ ufs_error_code' = n.err
              /\ files' = n.files
              /\ blocks' = n.blocks
              /\ falloc' = n.falloc
              /\ balloc' = n.balloc
              /\ file_list' = n.file_list
              /\ file_descriptors' = n.fds
              /\ file_descriptor_count' = n.count
              /\ file_descriptor_capacity' = n.cap
              /\ fault' = FALSE
              /\ last' = [call EXCEPT !.ret = r.ret, !.ub = r.s.ub]
           \/ /\ r.s.ub \/ r.s.hang
              /\ fault' = TRUE
              /\ last' = [call EXCEPT !.ub = TRUE]
              /\ UNCHANGED <<ufs_error_code, files, blocks, falloc, balloc,
                             file_list, file_descriptors,
                             file_descriptor_count, file_descriptor_capacity>>

Init ==
    /\ ufs_error_code = UFS_ERR_NO_ERR
    /\ files = [f \in FileIds |-> NoFile]
    /\ blocks = [b \in BlockIds |-> NewBlock]
    /\ falloc = {}
    /\ balloc = {}
    /\ file_list = <<>>
    /\ file_descriptors = <<>>
    /\ file_descriptor_count = 0
    /\ file_descriptor_capacity = 0
    /\ fault = FALSE
    /\ last = NoCall
    /\ steps = 0

Open(I, name, flags) ==
    \E r \in OpenOutcomes(State, name, flags, I.oks) : Commit(I, r, Call("open"))

Write(I, fd, buf) ==
    \E r \in WriteOutcomes(State, fd, buf) : Commit(I, r, Call("write"))

Read(I, fd, size) ==
    \E r \in ReadOutcomes(State, fd, size) : Commit(I, r, Call("read"))

Close(I, fd) == Commit(I, CloseOutcome(State, fd), Call("close"))

Delete(I, name) == Commit(I, DeleteOutcome(State, name), Call("delete"))

Resize(I, fd, new_size) ==
    \E r \in ResizeOutcomes(State, fd, new_size) : Commit(I, r, Call("resize"))

Destroy(I) == Commit(I, DestroyOutcome(State), Call("destroy"))

NextOn(I) ==
    \/ \E name \in I.names, flags \in I.flags : Open(I, name, flags)
    \/ \E fd \in Handles, buf \in I.bufs : Write(I, fd, buf)
    \/ \E fd \in Handles, size \in I.reads : Read(I, fd, size)
    \/ \E fd \in Handles : Close(I, fd)
    \/ \E name \in I.names : Delete(I, name)
    \/ \E fd \in Handles, new_size \in I.sizes : Resize(I, fd, new_size)
    \/ Destroy(I)

Next == NextOn(Inputs)

Spec == Init /\ [][Next]_vars


(***************************************************************************)
(* What the model relies on.  A struct file is freed only once nothing     *)
(* points to it, so the file heap needs no stale contents; a file with a   *)
(* first block has a last block; the list holds no file twice.             *)
(***************************************************************************)
ModelSound ==
    /\ LiveFiles(State) \subseteq falloc
    /\ \A f \in LiveFiles(State) :
            (files[f].block_list = NULL) = (files[f].last_block = NULL)
    /\ \A i, j \in 1..Len(file_list) : file_list[i] = file_list[j] => i = j
    /\ Len(file_descriptors) = file_descriptor_capacity
    /\ \A f \in FileIds \ LiveFiles(State) : files[f] = NoFile


(***************************************************************************)
(* Observations used by the claims.                                        *)
(***************************************************************************)
\* A call returned as the C standard defines it: no undefined behaviour and
\* no endless loop on the way.
Defined(r) == ~r.s.ub /\ ~r.s.hang

\* The file a valid handle is bound to.
FileOf(s, fd) == s.fds[fd + 1].file
ValidHandles(s) == {fd \in Handles : ValidFd(s, fd)}

\* What a descriptor at offset 0 of file f reads with capacity size: ufs_read
\* through a descriptor as ufs_open makes it (lines 240-243).
Probe(s, f, size) ==
    ufs_read([Entry(s) EXCEPT
                !.fds = <<[file |-> f, block |-> s.files[f].block_list,
                           pos |-> 0, offset |-> 0,
                           flags |-> {UFS_READ_WRITE}]>>,
                !.count = 1, !.cap = 1],
             0, size)

\* Everything a descriptor at offset 0 can read from file f.
HeapBytes == HeapBlocks * BLOCK_SIZE
Contents(s, f) == Probe(s, f, HeapBytes + 1).out

\* The one outcome of ufs_open in which no allocation fails for want of
\* memory (it may still fail: the heap or the table may be full).
OpenOk(s, name, flags) == ufs_open(Entry(s), name, flags, TRUE, TRUE, TRUE)

(***************************************************************************)
(* C1: write/read round trip.  From every reachable state: create a file   *)
(* under an absent name, write b in one call that returns Len(b), close,   *)
(* open the name again, read once with a capacity of at least Len(b): the  *)
(* read returns exactly the bytes of b, in order, and a second read        *)
(* returns 0.  b ranges over the buffers up to MaxWriteLen bytes, which    *)
(* is more than one block.                                                 *)
(***************************************************************************)
RoundTripFrom(s, name, b) ==
    LET o == OpenOk(s, name, {UFS_CREATE})
    IN  (find_file(s, name) = NULL /\ o.ret >= 0) =>
        \A w \in WriteOutcomes(o.s, o.ret, b) :
            w.ret = Len(b) =>
            LET c == CloseOutcome(w.s, o.ret)
                o2 == OpenOk(c.s, name, {})
            IN  /\ Defined(w) /\ Defined(c)
                /\ c.ret = 0
                /\ o2.ret >= 0 =>
                   \A size \in {Len(b), MaxReadLen} :
                   \A r \in ReadOutcomes(o2.s, o2.ret, size) :
                        /\ Defined(r)
                        /\ r.ret = Len(b)
                        /\ r.out = b
                        /\ \A r2 \in ReadOutcomes(r.s, o2.ret, size) :
                                Defined(r2) /\ r2.ret = 0 /\ r2.out = <<>>

\* C1: the round trip holds from every reachable state, for every name and
\* every buffer.
C1_RoundTrip ==
    ~fault => \A name \in Names, b \in AllBuffers : RoundTripFrom(State, name, b)

\* A state reached by the sequence itself: the one descriptor of a file of
\* more than one block has just read the whole file in one call.
C1_Witness ==
    /\ last.op = "read" /\ last.ret = MaxWriteLen /\ ~last.ub
    /\ MaxWriteLen > BLOCK_SIZE
    /\ \E fd \in ValidHandles(State) :
        LET f == FileOf(State, fd)
        IN  /\ file_descriptors[fd + 1].offset = MaxWriteLen
            /\ files[f].size = MaxWriteLen
            /\ files[f].refs = 1
            /\ Contents(State, f) = SubSeq(Pattern, 1, MaxWriteLen)
            /\ \A r \in ReadOutcomes(State, fd, MaxReadLen) : r.ret = 0


(***************************************************************************)
(* C10: first-fit handles.  Every successful open returns the smallest     *)
(* non-negative integer whose table slot is empty at that moment (a slot   *)
(* past the table's capacity is empty), so the handle was not open before, *)
(* and the descriptors that were open keep their handles.                  *)
(***************************************************************************)
SlotEmpty(s, n) == n >= s.cap \/ s.fds[n + 1] = NoDesc
SmallestEmpty(s) == MinOf({n \in 0..s.cap : SlotEmpty(s, n)})

\* C10: a successful open returns the smallest empty slot, a handle that was
\* not open, and moves no other descriptor.
C10_FirstFit ==
    ~fault =>
    \A name \in Names, flags \in Inputs.flags :
    \A r \in OpenOutcomes(State, name, flags, BOOLEAN) :
        r.ret >= 0 =>
            /\ Defined(r)
            /\ r.ret = SmallestEmpty(State)
            /\ ~ValidFd(State, r.ret) /\ ValidFd(r.s, r.ret)
            /\ \A fd \in ValidHandles(State) :
                    /\ fd # r.ret
                    /\ r.s.fds[fd + 1] = State.fds[fd + 1]

\* An open has just reused handle 0, closed earlier, while handle 1 is open.
C10_Witness ==
    /\ last.op = "open" /\ last.ret = 0
    /\ file_descriptor_capacity = MaxCapacity
    /\ ValidFd(State, 0) /\ ValidFd(State, 1)
    /\ file_descriptors[1].offset = 0 /\ file_descriptors[2].offset > 0


(***************************************************************************)
(* C7: size limit.  What a failed call must leave alone: the file records, *)
(* the blocks, the allocations, the registry and the descriptor table.     *)
(***************************************************************************)
SameButError(s, t) ==
    /\ t.files = s.files /\ t.blocks = s.blocks
    /\ t.falloc = s.falloc /\ t.balloc = s.balloc
    /\ t.file_list = s.file_list
    /\ t.fds = s.fds /\ t.count = s.count /\ t.cap = s.cap

\* create_block returned NULL during the call: malloc refused, or the heap
\* of the model has no block left.
AllocationFailed(r) ==
    r.s.starved \/ (r.s.err = UFS_ERR_NO_MEM /\ r.s.balloc = BlockIds)

\* The error kind the specification names for the size limit; ufs_error_code
\* of userfs.c has no such value.
SizeLimitExceeded == "SizeLimitExceeded"

\* Through a valid handle with write permission, a write with
\* offset + length > MAX_FILE_SIZE and a resize with n > MAX_FILE_SIZE fail
\* with the error kind `kind` and change nothing else; a write or a resize
\* that ends exactly at MAX_FILE_SIZE fails only if an allocation fails.
SizeLimitWith(kind) ==
    ~fault =>
    \A fd \in ValidHandles(State) :
        LET d == State.fds[fd + 1]
        IN  CanWrite(d) =>
            /\ \A buf \in Buffers :
               \A r \in WriteOutcomes(State, fd, buf) :
                    /\ d.offset + Len(buf) > MAX_FILE_SIZE =>
                            /\ Defined(r)
                            /\ r.ret = -1
                            /\ r.s.err = kind
                            /\ SameButError(State, r.s)
                    /\ (d.offset + Len(buf) = MAX_FILE_SIZE /\ Defined(r)) =>
                            \/ r.ret = Len(buf)
                            \/ AllocationFailed(r)
            /\ \A r \in ResizeOutcomes(State, fd, MAX_FILE_SIZE + 1) :
                    /\ Defined(r)
                    /\ r.ret = -1
                    /\ r.s.err = kind
                    /\ SameButError(State, r.s)
            /\ \A r \in ResizeOutcomes(State, fd, MAX_FILE_SIZE) :
                    Defined(r) => (r.ret = 0 \/ AllocationFailed(r))

Prefix(q, n) == SubSeq(q, 1, Min(n, Len(q)))

C4_ShrinkTruncates ==
    ~fault =>
    \A fd \in ValidHandles(State), n \in NewSizes :
        LET f == FileOf(State, fd)
        IN  n < State.files[f].size =>
            \A r \in ResizeOutcomes(State, fd, n) :
                (r.ret = 0 /\ Defined(r)) =>
                    /\ Len(Contents(r.s, f)) = n
                    /\ Contents(r.s, f) = Prefix(Contents(State, f), n)

(***************************************************************************)
(* C5: shrink repairs cursors.  After a successful shrink to n, every      *)
(* descriptor of the file whose offset was above n stands at offset n and  *)
(* its next read returns 0 bytes; a descriptor whose offset was at most n  *)
(* keeps its offset.                                                       *)
(***************************************************************************)
C5_ShrinkRepairsCursors ==
    ~fault =>
    \A fd \in ValidHandles(State), n \in NewSizes :
        LET f == FileOf(State, fd)
        IN  n < State.files[f].size =>
            \A r \in ResizeOutcomes(State, fd, n) :
                (r.ret = 0 /\ Defined(r)) =>
                \A d \in ValidHandles(State) :
                    FileOf(State, d) = f =>
                        IF State.fds[d + 1].offset > n
                        THEN /\ r.s.fds[d + 1].offset = n
                             /\ \A q \in ReadOutcomes(r.s, d, MaxReadLen) :
                                    CanRead(r.s.fds[d + 1]) => q.ret = 0
                        ELSE r.s.fds[d + 1].offset = State.fds[d + 1].offset

(***************************************************************************)
(* C6: grow zero-fills.  After resize(fd, n) returns success with n above  *)
(* the file's size (and at most MAX_FILE_SIZE), the file is n bytes long,  *)
(* the bytes from the old size on read as zero, the bytes below the old    *)
(* size are unchanged, and no descriptor's cursor has moved.               *)
(***************************************************************************)
C6_GrowZeroFills ==
    ~fault =>
    \A fd \in ValidHandles(State), n \in NewSizes :
        LET f == FileOf(State, fd)
            old == State.files[f].size
        IN  (n > old /\ n <= MAX_FILE_SIZE) =>
            \A r \in ResizeOutcomes(State, fd, n) :
                (r.ret = 0 /\ Defined(r)) =>
                    LET was == Contents(State, f)
                        now == Contents(r.s, f)
                    IN  /\ r.s.files[f].size = n
                        /\ Len(now) = n
                        /\ \A i \in 1..Len(now) :
                                IF i > old THEN now[i] = 0
                                ELSE i <= Len(was) /\ now[i] = was[i]
                        /\ \A d \in ValidHandles(State) :
                                r.s.fds[d + 1].offset = State.fds[d + 1].offset


(***************************************************************************)
(* C8: open rollback.  An open that fails leaves the registry, the files,  *)
(* their reference counts and content, the blocks and the descriptor table *)
(* exactly as they were; only the error code may differ.                   *)
(***************************************************************************)
\* The files and blocks that are allocated hold what they held (a freed
\* record keeps stale bytes that nothing may read).
SameHeap(s, t) ==
    /\ t.falloc = s.falloc /\ t.balloc = s.balloc
    /\ \A f \in s.falloc : t.files[f] = s.files[f]
    /\ \A b \in s.balloc : t.blocks[b] = s.blocks[b]

\* C8: a failed open changes nothing but the error code.
C8_OpenRollback ==
    ~fault =>
    \A name \in Names, flags \in Inputs.flags :
    \A r \in OpenOutcomes(State, name, flags, BOOLEAN) :
        r.ret = -1 =>
            /\ Defined(r)
            /\ SameHeap(State, r.s)
            /\ r.s.file_list = State.file_list
            /\ r.s.fds = State.fds
            /\ r.s.count = State.count /\ r.s.cap = State.cap

(***************************************************************************)
(* C9: teardown.  After destroy no File, no Block and no Descriptor is     *)
(* allocated, the registry is empty and the table is gone, and a following *)
(* open(name, CREATE) returns handle 0 on an empty file.                   *)
(***************************************************************************)
C9_Teardown ==
    ~fault =>
    LET r == DestroyOutcome(State)
        o == OpenOk(r.s, "a", {UFS_CREATE})
    IN  Defined(r) =>
            /\ r.s.falloc = {} /\ r.s.balloc = {}
            /\ r.s.file_list = <<>>
            /\ r.s.fds = <<>> /\ r.s.count = 0 /\ r.s.cap = 0
            /\ o.ret = 0
            /\ o.s.files[FileOf(o.s, 0)].size = 0
            /\ Contents(o.s, FileOf(o.s, 0)) = <<>>


(***************************************************************************)
(* C3: file lifetime.  After any open, read, write, close, delete or       *)
(* resize: a File is allocated exactly when it is registered or its        *)
(* reference count is positive; the blocks that are allocated are exactly  *)
(* the chains of those files; and a file that was registered with every    *)
(* descriptor closed is still there unless the call was a delete.          *)
(***************************************************************************)
ChainOf(s, f) == NextClosure(s, {s.files[f].block_list} \ {NULL})

Lifetime(s) ==
    /\ \A f \in FileIds :
            f \in s.falloc <=> (is_file_in_list(s, f) \/
                                \E d \in OpenDescs(s) : d.file = f)
    /\ \A f \in s.falloc :
            s.files[f].refs = Cardinality({i \in 1..Len(s.fds) :
                                                s.fds[i] # NoDesc /\
                                                s.fds[i].file = f})
    /\ s.balloc = UNION {ChainOf(s, f) : f \in s.falloc}

RegisteredClosed(s) ==
    {f \in s.falloc : is_file_in_list(s, f) /\ s.files[f].refs = 0}

\* The states the calls other than delete and destroy can leave.
AfterCalls(s) ==
    {r.s : r \in UNION {OpenOutcomes(s, name, flags, BOOLEAN) :
                            name \in Names, flags \in Inputs.flags}}
    \cup {r.s : r \in UNION {WriteOutcomes(s, fd, buf) :
                            fd \in Handles, buf \in Buffers}}
    \cup {r.s : r \in UNION {ReadOutcomes(s, fd, size) :
                            fd \in Handles, size \in ReadSizes}}
    \cup {r.s : r \in UNION {ResizeOutcomes(s, fd, n) :
                            fd \in Handles, n \in NewSizes}}
    \cup {CloseOutcome(s, fd).s : fd \in Handles}

\* C3: the lifetime rule is kept by every call, and no call but delete
\* removes a registered file whose descriptors are all closed.
C3_FileLifetime ==
    (~fault /\ Lifetime(State)) =>
        /\ \A t \in AfterCalls(State) :
                (~t.ub /\ ~t.hang) =>
                    /\ Lifetime(t)
                    /\ RegisteredClosed(State) \subseteq RegisteredClosed(t)
                                \cup {f \in t.falloc : t.files[f].refs > 0}
        /\ \A name \in Names :
                Lifetime(DeleteOutcome(State, name).s)

(***************************************************************************)
(* C2: delete while open.  With descriptor d open on the file registered   *)
(* as name: delete(name) succeeds and frees nothing, d still reads what    *)
(* it read before; after other descriptors are closed or not, a following  *)
(* open(name, CREATE) creates a new empty file with reference count 1,     *)
(* and no write through d or through the new descriptor e changes what    *)
(* the other one's file holds.                                             *)
(***************************************************************************)
OneByte == <<1>>

\* Writes through handle x, twice at most: what file g holds stays put.
WritesLeave(s, x, y, g) ==
    \A w \in WriteOutcomes(s, x, OneByte) :
        Defined(w) =>
            /\ Contents(w.s, g) = Contents(s, g)
            /\ w.s.files[g].size = s.files[g].size
            /\ \A v \in WriteOutcomes(w.s, y, OneByte) :
                    Defined(v) =>
                        /\ Contents(v.s, FileOf(s, x)) = Contents(w.s, FileOf(s, x))
                        /\ v.s.files[FileOf(s, x)].size = w.s.files[FileOf(s, x)].size

DeleteWhileOpenFrom(s, name, d) ==
    LET f == FileOf(s, d)
        del == DeleteOutcome(s, name)
    IN  /\ Defined(del) /\ del.ret = 0
        /\ SameHeap(s, del.s)
        /\ del.s.fds = s.fds
        /\ Contents(del.s, f) = Contents(s, f)
        /\ \A size \in ReadSizes :
                {r.out : r \in ReadOutcomes(del.s, d, size)} =
                {r.out : r \in ReadOutcomes(s, d, size)}
        /\ \A after \in {del.s} \cup
                        {CloseOutcome(del.s, x).s : x \in ValidHandles(s) \ {d}} :
                LET o == OpenOk(after, name, {UFS_CREATE})
                    e == o.ret
                    g == FileOf(o.s, e)
                IN  e >= 0 =>
                        /\ Defined(o)
                        /\ e # d /\ g # f
                        /\ o.s.files[g].size = 0 /\ o.s.files[g].refs = 1
                        /\ Contents(o.s, g) = <<>>
                        /\ o.s.files[f] = after.files[f]
                        /\ WritesLeave(o.s, d, e, g)
                        /\ WritesLeave(o.s, e, d, f)

\* C2: delete while open frees nothing, and the file created next under the
\* same name is independent of the deleted one.
C2_DeleteWhileOpen ==
    ~fault =>
    \A name \in Names, d \in ValidHandles(State) :
        (find_file(State, name) # NULL /\ find_file(State, name) = FileOf(State, d))
            => DeleteWhileOpenFrom(State, name, d)


(***************************************************************************)
(* C11: open of an absent name without CREATE.  Whatever access flags are  *)
(* given, it fails with UFS_ERR_NO_FILE, allocates no descriptor and       *)
(* leaves the registry, the table and the heap as they were; so it does    *)
(* when the name was deleted and a descriptor of the deleted file is open. *)
(***************************************************************************)
NoCreateFlags == {{}} \cup {{m} : m \in AccessModes}

Absent(s, name) == \A i \in 1..Len(s.file_list) : s.files[s.file_list[i]].name # name

\* C11: every outcome of such an open is the NoSuchFile failure and changes
\* nothing but the error code.
C11_OpenAbsent ==
    ~fault =>
    \A name \in Names, flags \in NoCreateFlags :
        Absent(State, name) =>
        \A r \in OpenOutcomes(State, name, flags, BOOLEAN) :
            /\ Defined(r)
            /\ r.ret = -1
            /\ r.s.err = UFS_ERR_NO_FILE
            /\ SameButError(State, r.s)

\* Such an open has just failed while a descriptor of a deleted file that
\* had the name is still open.
C11_Witness ==
    /\ last.op = "open" /\ last.ret = -1
    /\ ufs_error_code = UFS_ERR_NO_FILE
    /\ file_list = <<>>
    /\ \E fd \in ValidHandles(State) :
            /\ files[FileOf(State, fd)].name = "a"
            /\ files[FileOf(State, fd)].size > 0


(***************************************************************************)
(* C12: close.  On a handle that is negative, out of range or whose slot   *)
(* is empty, close fails with UFS_ERR_NO_FILE and changes nothing.  On a   *)
(* valid handle it returns 0, empties that slot only, takes 1 from the     *)
(* reference count of the bound file only (which is destroyed with its     *)
(* chain if it was deleted and this was its last descriptor) and leaves    *)
(* the other descriptors, files and blocks alone; read, write, resize and  *)
(* close on the handle then fail with UFS_ERR_NO_FILE.                     *)
(***************************************************************************)
FailsNoFile(r) == r.ret = -1 /\ r.s.err = UFS_ERR_NO_FILE

ClosedHandleRefused(s, h) ==
    /\ \A size \in ReadSizes : \A r \in ReadOutcomes(s, h, size) :
            FailsNoFile(r) /\ SameButError(s, r.s)
    /\ \A buf \in Buffers : \A r \in WriteOutcomes(s, h, buf) :
            FailsNoFile(r) /\ SameButError(s, r.s)
    /\ \A n \in NewSizes : \A r \in ResizeOutcomes(s, h, n) :
            FailsNoFile(r) /\ SameButError(s, r.s)
    /\ FailsNoFile(CloseOutcome(s, h))
    /\ SameButError(s, CloseOutcome(s, h).s)

CloseValid(s, h) ==
    LET c == CloseOutcome(s, h)
        f == FileOf(s, h)
        last_ref == s.files[f].refs = 1 /\ ~is_file_in_list(s, f)
        gone == IF last_ref THEN ChainOf(s, f) ELSE {}
    IN  /\ Defined(c)
        /\ c.ret = 0 /\ c.s.err = UFS_ERR_NO_ERR
        /\ c.s.cap = s.cap /\ c.s.count = s.count - 1
        /\ c.s.fds = [s.fds EXCEPT ![h + 1] = NoDesc]
        /\ c.s.file_list = s.file_list
        /\ c.s.falloc = IF last_ref THEN s.falloc \ {f} ELSE s.falloc
        /\ ~last_ref => c.s.files[f] = [s.files[f] EXCEPT !.refs = @ - 1]
        /\ \A g \in s.falloc \ {f} : c.s.files[g] = s.files[g]
        /\ c.s.balloc = s.balloc \ gone
        /\ \A b \in c.s.balloc : c.s.blocks[b] = s.blocks[b]
        /\ ClosedHandleRefused(c.s, h)

\* C12: close refuses every invalid handle and, on a valid one, does exactly
\* what is described above.
C12_Close ==
    ~fault =>
    \A h \in Handles :
        IF ValidFd(State, h) THEN CloseValid(State, h)
        ELSE ClosedHandleRefused(State, h)

\* A close has just emptied slot 0 while slot 1 holds a descriptor of the
\* same file, whose reference count went from 2 to 1.
C12_Witness ==
    /\ last.op = "close" /\ last.ret = 0
    /\ file_descriptor_capacity = MaxCapacity
    /\ ~ValidFd(State, 0) /\ ValidFd(State, 1)
    /\ files[FileOf(State, 1)].refs = 1
    /\ files[FileOf(State, 1)].size > 0


(***************************************************************************)
(* A second specification, in which files are opened with access modes, so *)
(* that descriptors without read or without write permission exist.        *)
(***************************************************************************)
FlagInputs ==
    [names |-> {"a"},
     flags |-> {{UFS_CREATE}, {UFS_READ_ONLY}, {UFS_CREATE, UFS_WRITE_ONLY}},
     bufs |-> {<<1>>, SubSeq(Pattern, 1, MaxWriteLen)},
     reads |-> {1, MaxReadLen},
     sizes |-> {0, 1, MAX_FILE_SIZE + 1},
     oks |-> BOOLEAN, survive |-> TRUE, steps |-> MaxSteps]

NextFlags == NextOn(FlagInputs)

SpecFlags == Init /\ [][NextFlags]_vars

(***************************************************************************)
(* C13: last-error protocol.  After open, read, write, close, delete or    *)
(* resize returns full success, ufs_errno() is UFS_ERR_NO_ERR whatever it  *)
(* was before the call; after one returns -1, ufs_errno() is the kind of   *)
(* that failure and never UFS_ERR_NO_ERR.  The kind of each failure:       *)
(* a bad handle or an absent name is NoSuchFile, a missing permission is   *)
(* PermissionDenied, a size above the limit is `limit`, anything else is   *)
(* a failed allocation, OutOfMemory.                                       *)
(***************************************************************************)
AllFlags == {c \cup m : c \in {{}, {UFS_CREATE}}, m \in NoCreateFlags}

\* The result of a call: its return value, the value that means full
\* success (or "any" for a count), the error kind a failure must report.
Verdict(r, full, kind) ==
    Defined(r) =>
        /\ r.ret = -1 => (ufs_errno(r.s) = kind /\ ufs_errno(r.s) # UFS_ERR_NO_ERR)
        /\ (r.ret >= 0 /\ (full = -1 \/ r.ret = full)) =>
                ufs_errno(r.s) = UFS_ERR_NO_ERR

HandleKind(s, fd, allowed, over, limit) ==
    IF ~ValidFd(s, fd) THEN UFS_ERR_NO_FILE
    ELSE IF ~allowed THEN UFS_ERR_NO_PERMISSION
    ELSE IF over THEN limit
    ELSE UFS_ERR_NO_MEM

LastErrorWith(limit) ==
    ~fault =>
    /\ \A name \in Names, flags \in AllFlags :
       \A r \in OpenOutcomes(State, name, flags, BOOLEAN) :
            Verdict(r, -1,
                    IF Absent(State, name) /\ UFS_CREATE \notin flags
                    THEN UFS_ERR_NO_FILE ELSE UFS_ERR_NO_MEM)
    /\ \A fd \in Handles :
        LET d == IF ValidFd(State, fd) THEN State.fds[fd + 1] ELSE NoDesc
        IN  /\ \A size \in ReadSizes : \A r \in ReadOutcomes(State, fd, size) :
                    Verdict(r, -1,
                            HandleKind(State, fd, CanRead(d), FALSE, limit))
            /\ \A buf \in Buffers : \A r \in WriteOutcomes(State, fd, buf) :
                    Verdict(r, Len(buf),
                            HandleKind(State, fd, CanWrite(d),
                                       d.offset + Len(buf) > MAX_FILE_SIZE,
                                       limit))
            /\ \A n \in NewSizes : \A r \in ResizeOutcomes(State, fd, n) :
                    Verdict(r, 0,
                            HandleKind(State, fd, CanWrite(d),
                                       n > MAX_FILE_SIZE, limit))
            /\ Verdict(CloseOutcome(State, fd), 0, UFS_ERR_NO_FILE)
    /\ \A name \in Names :
            Verdict(DeleteOutcome(State, name), 0, UFS_ERR_NO_FILE)

Overlay(q, o, buf) ==
    [i \in 1..Max(Len(q), o + Len(buf)) |->
        IF i > o /\ i <= o + Len(buf) THEN buf[i - o]
        ELSE IF i <= Len(q) THEN q[i] ELSE 0]

StoredAtCursor(s, d, buf, w) ==
    LET f == FileOf(s, d)
        o == s.fds[d + 1].offset
        n == w.ret
    IN  /\ w.s.fds[d + 1].offset = o + n
        /\ w.s.files[f].size = Max(s.files[f].size, o + n)
        /\ o <= Len(Contents(s, f))
        /\ Contents(w.s, f) = Overlay(Contents(s, f), o, SubSeq(buf, 1, n))

\* C15: every write that stores all the bytes it was given stores them at
\* the cursor.
C15_WriteAtCursor ==
    ~fault =>
    \A d \in ValidHandles(State), buf \in AllBuffers :
    \A w \in WriteOutcomes(State, d, buf) :
        (Defined(w) /\ w.ret = Len(buf)) => StoredAtCursor(State, d, buf, w)


(***************************************************************************)
(* C14: shared storage.  With descriptors A and B on one file: after a     *)
(* write through A of n bytes at offset oA, a read through B that starts   *)
(* at B's offset returns, for every offset of [oA, oA+n) it covers, the    *)
(* byte A wrote there, and it does cover the first of them when B stands   *)
(* inside the range.                                                       *)
(***************************************************************************)
ReadsWhatWasWritten(s, A, B, buf) ==
    LET oA == s.fds[A + 1].offset
        oB == s.fds[B + 1].offset
        n == Len(buf)
    IN  \A w \in WriteOutcomes(s, A, buf) :
            (Defined(w) /\ w.ret = n) =>
            \A size \in ReadSizes \ {0} :
            \A r \in ReadOutcomes(w.s, B, size) :
                Defined(r) =>
                    /\ (oA <= oB /\ oB < oA + n) => r.ret >= 1
                    /\ \A k \in 1..Len(r.out) :
                            (oA < oB + k /\ oB + k <= oA + n) =>
                                r.out[k] = buf[oB + k - oA]

\* C14: a read through one descriptor sees what was written through the
\* other, whatever the state the two descriptors are in.
C14_SharedStorage ==
    ~fault =>
    \A A \in ValidHandles(State), B \in ValidHandles(State) :
        (A # B /\ FileOf(State, A) = FileOf(State, B)) =>
            \A buf \in AllBuffers \ {<<>>} :
                ReadsWhatWasWritten(State, A, B, buf)


(***************************************************************************)
(* The chain of a file as a sequence, from block_list along next (cut      *)
(* after HeapBlocks blocks, which a chain without a cycle never exceeds).  *)
(***************************************************************************)
RECURSIVE ChainFrom(_, _, _)
ChainFrom(s, b, fuel) ==
    IF b = NULL \/ fuel = 0 THEN <<>>
    ELSE <<b>> \o ChainFrom(s, s.blocks[b].next, fuel - 1)

ChainSeq(s, f) == ChainFrom(s, s.files[f].block_list, HeapBlocks)

RECURSIVE SumOccupied(_, _)
SumOccupied(s, q) ==
    IF q = <<>> THEN 0 ELSE s.blocks[Head(q)].occupied + SumOccupied(s, Tail(q))

(***************************************************************************)
(* C16: block chain invariant.  For every live file, every block of the    *)
(* chain but the last is full, every occupied count lies in                *)
(* 0..BLOCK_SIZE, last_block is the last block of the chain, and the       *)
(* occupied counts add up to the file's size.                              *)
(***************************************************************************)
ChainInvariant(s, f) ==
    LET q == ChainSeq(s, f)
    IN  /\ \A i \in 1..Len(q) :
            /\ s.blocks[q[i]].occupied \in 0..BLOCK_SIZE
            /\ i < Len(q) => s.blocks[q[i]].occupied = BLOCK_SIZE
        /\ s.files[f].last_block = IF q = <<>> THEN NULL ELSE q[Len(q)]
        /\ SumOccupied(s, q) = s.files[f].size

\* C16: the chain invariant holds for every live file after every call.
C16_ChainInvariant ==
    ~fault => \A f \in falloc : ChainInvariant(State, f)

(***************************************************************************)
(* C17: no dangling cursor.  The block of every open descriptor is NULL or *)
(* an allocated block of the chain of the descriptor's file, and no read   *)
(* or write touches freed storage.                                         *)
(***************************************************************************)
CursorInChain(s, d) ==
    d.block = NULL \/
        (d.block \in s.balloc /\ d.block \in ChainOf(s, d.file))

\* C17: every cursor is in its file's chain and reads and writes stay in
\* allocated memory.
C17_NoDanglingCursor ==
    ~fault =>
    /\ \A d \in OpenDescs(State) : CursorInChain(State, d)
    /\ \A fd \in ValidHandles(State) :
        /\ \A size \in ReadSizes : \A r \in ReadOutcomes(State, fd, size) : Defined(r)
        /\ \A buf \in Buffers : \A w \in WriteOutcomes(State, fd, buf) : Defined(w)

(***************************************************************************)
(* C18: descriptor consistency.  For every open descriptor whose block is  *)
(* present: 0 <= pos <= occupied of that block, pos = offset minus the     *)
(* occupied counts of the blocks before it in the chain, and               *)
(* offset <= size of the file.                                             *)
(***************************************************************************)
IndexIn(q, b) == CHOOSE i \in 1..Len(q) : q[i] = b

DescriptorConsistent(s, d) ==
    LET q == ChainSeq(s, d.file)
    IN  d.block # NULL =>
            /\ \E i \in 1..Len(q) : q[i] = d.block
            /\ d.pos >= 0 /\ d.pos <= s.blocks[d.block].occupied
            /\ d.pos = d.offset - SumOccupied(s, SubSeq(q, 1, IndexIn(q, d.block) - 1))
            /\ d.offset <= s.files[d.file].size

\* C18: every open descriptor is consistent after every call.
C18_DescriptorConsistent ==
    ~fault => \A d \in OpenDescs(State) : DescriptorConsistent(State, d)


(***************************************************************************)
(* C19: short write.  When an allocation fails during a write after k      *)
(* bytes were stored, the write returns k if k > 0 and -1 with             *)
(* UFS_ERR_NO_MEM if k = 0; the descriptor has moved by k; bytes           *)
(* [o, o+k) of the file are the first k bytes given; and every block the   *)
(* call allocated is linked into the chain, whose last block is            *)
(* last_block.                                                             *)
(***************************************************************************)
CutShort(s, d, buf, w) ==
    /\ CanWrite(s.fds[d + 1])
    /\ s.fds[d + 1].offset + Len(buf) <= MAX_FILE_SIZE
    /\ w.ret < Len(buf)

ShortWrite(s, d, buf, w) ==
    LET f == FileOf(s, d)
        o == s.fds[d + 1].offset
        k == IF w.ret = -1 THEN 0 ELSE w.ret
        q == ChainSeq(w.s, f)
        now == Contents(w.s, f)
    IN  /\ w.ret = -1 \/ w.ret >= 1
        /\ w.ret = -1 => ufs_errno(w.s) = UFS_ERR_NO_MEM
        /\ w.s.fds[d + 1].offset = o + k
        /\ \A i \in 1..k : o + i <= Len(now) /\ now[o + i] = buf[i]
        /\ w.s.balloc \ s.balloc \subseteq ChainOf(w.s, f)
        /\ w.s.files[f].last_block = IF q = <<>> THEN NULL ELSE q[Len(q)]

\* C19: every write cut short by a failed allocation reports and keeps
\* exactly the bytes it stored.
C19_ShortWrite ==
    ~fault =>
    \A d \in ValidHandles(State), buf \in AllBuffers :
    \A w \in WriteOutcomes(State, d, buf) :
        (Defined(w) /\ CutShort(State, d, buf, w)) =>
            ShortWrite(State, d, buf, w)

(***************************************************************************)
(* C20: size is raised by every write that stores bytes.  After a write    *)
(* that returns n >= 1, complete or cut short, the size of the file is at  *)
(* least the offset of the writing descriptor.                             *)
(***************************************************************************)
C20_SizeCoversWrites ==
    ~fault =>
    \A d \in ValidHandles(State), buf \in Buffers :
    \A w \in WriteOutcomes(State, d, buf) :
        (Defined(w) /\ w.ret >= 1) =>
            w.s.files[FileOf(State, d)].size >= w.s.fds[d + 1].offset


(***************************************************************************)
(* C21: read returns what is left, up to the capacity.  A read with        *)
(* capacity c through a descriptor at offset o of a file of size s returns *)
(* min(c, s - o) bytes, which are bytes [o, o + min(c, s - o)) of the      *)
(* file, and moves the offset by that count; it reports no error, also at  *)
(* end of file and on an empty file, and changes no file and no block.     *)
(***************************************************************************)
ReadsWhatIsLeft(s, d, c, r) ==
    LET f == FileOf(s, d)
        o == s.fds[d + 1].offset
        left == Max(s.files[f].size - o, 0)
        n == Min(c, left)
        all == Contents(s, f)
    IN  /\ r.ret = n
        /\ Len(r.out) = n
        /\ \A i \in 1..n : o + i <= Len(all) /\ r.out[i] = all[o + i]
        /\ r.s.fds[d + 1].offset = o + n
        /\ ufs_errno(r.s) = UFS_ERR_NO_ERR
        /\ SameHeap(s, r.s)

\* C21: every read through a descriptor with read permission returns
\* exactly what is left of the file, up to the capacity.
C21_ReadWhatIsLeft ==
    ~fault =>
    \A d \in ValidHandles(State), c \in ReadSizes :
        CanRead(State.fds[d + 1]) =>
        \A r \in ReadOutcomes(State, d, c) :
            Defined(r) => ReadsWhatIsLeft(State, d, c, r)


(***************************************************************************)
(* C22: access modes.  A write through a descriptor opened UFS_READ_ONLY   *)
(* and a read through a descriptor opened UFS_WRITE_ONLY fail with         *)
(* UFS_ERR_NO_PERMISSION and change nothing; a descriptor opened with no   *)
(* access flag, with or without UFS_CREATE, is refused neither.            *)
(***************************************************************************)
Denied(s, r) ==
    /\ r.ret = -1
    /\ ufs_errno(r.s) = UFS_ERR_NO_PERMISSION
    /\ SameButError(s, r.s)

WritesDenied(s, d) ==
    \A buf \in Buffers : \A w \in WriteOutcomes(s, d, buf) : Denied(s, w)

ReadsDenied(s, d) ==
    \A c \in ReadSizes : \A r \in ReadOutcomes(s, d, c) : Denied(s, r)

BothPermitted(s, d) ==
    /\ \A buf \in Buffers : \A w \in WriteOutcomes(s, d, buf) :
            ufs_errno(w.s) # UFS_ERR_NO_PERMISSION
    /\ \A c \in ReadSizes : \A r \in ReadOutcomes(s, d, c) :
            r.ret >= 0 /\ ufs_errno(r.s) = UFS_ERR_NO_ERR

Zeros(n) == [i \in 1..n |-> 0]

GrowFrame(s, f, old, r) ==
    /\ r.s.fds = s.fds
    /\ \A i \in 1..old :
            /\ i <= Len(Contents(r.s, f))
            /\ i <= Len(Contents(s, f))
            /\ Contents(r.s, f)[i] = Contents(s, f)[i]

ReadsOn(s, f, old, n, r) ==
    \A e \in ValidHandles(s) :
        (FileOf(s, e) = f /\ CanRead(s.fds[e + 1])) =>
            LET o == s.fds[e + 1].offset
                was == Contents(s, f)
            IN  \A q \in ReadOutcomes(r.s, e, HeapBytes + 1) :
                    Defined(q) =>
                        q.out = SubSeq(was, o + 1, old) \o Zeros(n - Max(old, o))

\* C23: every successful grow keeps the cursors and the old bytes, and the
\* descriptors read on into zero bytes.
C23_GrowFrame ==
    ~fault =>
    \A fd \in ValidHandles(State), n \in NewSizes :
        LET f == FileOf(State, fd)
            old == State.files[f].size
        IN  n > old =>
            \A r \in ResizeOutcomes(State, fd, n) :
                (r.ret = 0 /\ Defined(r)) =>
                    /\ GrowFrame(State, f, old, r)
                    /\ ReadsOn(State, f, old, n, r)


(***************************************************************************)
(* C24: the reference-count invariant.  After every completed call, a      *)
(* failed open included: the refs of every live file, registered or        *)
(* orphaned, is the number of non-empty slots of the descriptor table      *)
(* bound to it; every open descriptor is bound to a file that is not       *)
(* freed; file_descriptor_count is the number of non-empty slots and is at *)
(* most file_descriptor_capacity.                                          *)
(***************************************************************************)
UsedSlots(s) == {i \in 1..Len(s.fds) : s.fds[i] # NoDesc}
SlotsBoundTo(s, f) == {i \in UsedSlots(s) : s.fds[i].file = f}
Orphaned(s, f) == ~is_file_in_list(s, f) /\ SlotsBoundTo(s, f) # {}

RefCounts(s) ==
    /\ \A f \in LiveFiles(s) : s.files[f].refs = Cardinality(SlotsBoundTo(s, f))
    /\ \A d \in OpenDescs(s) : d.file \in s.falloc
    /\ s.count = Cardinality(UsedSlots(s))
    /\ s.count <= s.cap
    /\ Len(s.fds) = s.cap

\* C24: the reference counts, the bindings and the slot count agree in every
\* state a call leaves.
C24_RefCounts == RefCounts(State)

\* An open has just failed on allocation while one descriptor holds an
\* orphaned file and another a registered one.
C24_Witness ==
    /\ last.op = "open" /\ last.ret = -1
    /\ ufs_error_code = UFS_ERR_NO_MEM
    /\ \E f, g \in LiveFiles(State) :
            /\ Orphaned(State, f) /\ files[f].refs = 1
            /\ is_file_in_list(State, g) /\ files[g].refs = 1

=============================================================================
